---- MODULE Spec2Model ----
(***************************************************************************)
(* A model of spectrum_utils (src/lib.rs): to_spectra, bandpass and the    *)
(* Tsys implementation of Filter::mask.                                    *)
(*                                                                         *)
(* The element type T is the one the crate's tests use, u16: an unsigned   *)
(* integer of ElemBits bits.  Addition that leaves the type either panics  *)
(* (builds with overflow checks) or wraps modulo 2^ElemBits (builds        *)
(* without); the build is the variable overflow_checks.  Division is       *)
(* integer division.  A panic ends the call: pc = "panicked" and `panic`   *)
(* names which one.                                                        *)
(*                                                                         *)
(* f32 values are modelled as exact rationals [num, den]: every f32 that   *)
(* occurs here is a u16 value, a tolerance that is a multiple of 1/2, or a *)
(* product of the two, and all of those are exact in f32.                  *)
(***************************************************************************)
EXTENDS Integers, Sequences, FiniteSets, TLC

VARIABLES
    raw_spectra,      \* the caller's buffer handed to to_spectra
    channels,         \* the caller's channel count handed to to_spectra
    tolerance,        \* Tsys.tolerance, an f32
    overflow_checks,  \* TRUE: the build panics on integer overflow; FALSE: it wraps
    pc,               \* "start", "view", "bandpass_done", "panicked"
    panic,            \* which panic ended the run, "none" if none did
    spectra,          \* the Spectra view to_spectra returned
    bp,               \* the Array1 a direct call of bandpass returned
    t_sys,            \* local of Tsys::mask: the bandpass, selected in place
    t_sys_median,     \* local of Tsys::mask, an f32
    t_sys_mask,       \* local of Tsys::mask: the per-index decisions
    ret               \* the Array2<bool> Filter::mask returned, <<>> while it has not

vars == <<raw_spectra, channels, tolerance, overflow_checks, pc, panic,
          spectra, bp, t_sys, t_sys_median, t_sys_mask, ret>>

----------------------------------------------------------------------------
(* Bounds of the model and the element type *)

MaxLen == 4

MaxVal == 2

MaxChannels == 4

ElemBits == 16

Modulus == 2 ^ ElemBits

TMax == Modulus - 1

\* The raw vector of tests::test_bandpass, reshaped there with 4 channels.
TestRaw == <<1, 2, 3, 4, 1, 2, 3, 4, 1, 2, 3, 4>>

TestChannels == 4

\* u16 samples the buffers are drawn from: small ones and the largest one
Elems == (0 .. MaxVal) \cup {TMax}

Buffers == UNION {[1 .. n -> Elems] : n \in 0 .. MaxLen}

Tolerances == {[num |-> 1, den |-> 2], [num |-> 1, den |-> 1], [num |-> 3, den |-> 2]}

----------------------------------------------------------------------------
(* f32 *)

\* f32::from(v) for a u16 v: lossless
F32From(v) == [num |-> v, den |-> 1]

F32Mul(a, b) == [num |-> a.num * b.num, den |-> a.den * b.den]

F32Lt(a, b) == a.num * b.den < b.num * a.den

----------------------------------------------------------------------------
(* Spectra: an ArrayView2 over the buffer, dim (samples, channels) *)

NoView == [data |-> <<>>, dim |-> <<0, 0>>, strides |-> <<0, 0>>]

Samples(v) == v.dim[1]

Channels(v) == v.dim[2]

\* v[[s, c]], 0-based as in ndarray
At(v, s, c) == v.data[s * v.strides[1] + c * v.strides[2] + 1]

\* Faulty variant: the view laid out column-major (Fortran order)
into_shape_fortran(data, samples, chans) ==
    [data |-> data, dim |-> <<samples, chans>>, strides |-> <<1, samples>>]

\* aview1(raw).into_shape((samples, channels)) once the size matches: C order
into_shape(data, samples, chans) ==
    [data |-> data, dim |-> <<samples, chans>>, strides |-> <<chans, 1>>]

\* Faulty variant: no size check, the view silently drops the trailing elements
to_spectra_truncating(raw, chans) ==
    IF chans = 0
    THEN [panic |-> "divide_by_zero", view |-> NoView]
    ELSE [panic |-> "none",
          view |-> into_shape(SubSeq(raw, 1, (Len(raw) \div chans) * chans),
                              Len(raw) \div chans, chans)]

\* to_spectra: `len / channels` panics for channels = 0; into_shape returns
\* Err(ShapeError) unless samples * channels = len, and unwrap panics on it.
to_spectra(raw, chans) ==
    IF chans = 0
    THEN [panic |-> "divide_by_zero", view |-> NoView]
    ELSE LET samples == Len(raw) \div chans
         IN  IF samples * chans # Len(raw)
             THEN [panic |-> "ShapeError", view |-> NoView]
             ELSE [panic |-> "none", view |-> into_shape(raw, samples, chans)]

----------------------------------------------------------------------------
(* bandpass = mean_axis(Axis(0)).unwrap() *)

Overflowed == 0 - 1

\* a + b in T; Overflowed once an addition has panicked
AddT(a, b, checks) ==
    IF a = Overflowed \/ b = Overflowed THEN Overflowed
    ELSE IF a + b > TMax
         THEN (IF checks THEN Overflowed ELSE (a + b) % Modulus)
         ELSE a + b

\* the sum of rows 0 .. n-1 of channel c, accumulated from T::zero()
RECURSIVE SumRows(_, _, _, _)
SumRows(v, c, n, checks) ==
    IF n = 0 THEN 0
    ELSE AddT(SumRows(v, c, n - 1, checks), At(v, n - 1, c), checks)

\* Faulty variant: the sum runs along Axis(1), over the columns of one row
sum_axis_1(v, checks) ==
    LET RECURSIVE SumCols(_, _)
        SumCols(s, n) == IF n = 0 THEN 0
                         ELSE AddT(SumCols(s, n - 1), At(v, s, n - 1), checks)
    IN  [s \in 1 .. Samples(v) |-> SumCols(s - 1, Channels(v))]

\* Faulty variant: the accumulation starts from row 0 instead of T::zero() and then
\* adds every row, row 0 a second time
sum_axis_seeded(v, checks) ==
    [c \in 1 .. Channels(v) |->
        AddT(At(v, 0, c - 1), SumRows(v, c - 1, Samples(v), checks), checks)]

\* sum_axis(Axis(0)): one sum per channel
sum_axis(v, checks) ==
    [c \in 1 .. Channels(v) |-> SumRows(v, c - 1, Samples(v), checks)]

\* Faulty variant: mean_axis without the check for an empty axis
mean_axis_unchecked(v, checks) ==
    IF Samples(v) = 0
    THEN [panic |-> "divide_by_zero", val |-> <<>>]
    ELSE [panic |-> "none",
          val |-> [c \in 1 .. Channels(v) |->
                      SumRows(v, c - 1, Samples(v), checks) \div Samples(v)]]

\* mean_axis(Axis(0)): None for an empty axis; the axis length converted to T
\* (expect); the sums in T; the sums divided by the length in T.
mean_axis(v, checks) ==
    IF Samples(v) = 0
    THEN [panic |-> "unwrap_none", val |-> <<>>]
    ELSE IF Samples(v) > TMax
    THEN [panic |-> "expect_axis_length", val |-> <<>>]
    ELSE LET sum == sum_axis(v, checks)
         IN  IF \E c \in DOMAIN sum : sum[c] = Overflowed
             THEN [panic |-> "add_overflow", val |-> <<>>]
             ELSE [panic |-> "none",
                   val |-> [c \in DOMAIN sum |-> sum[c] \div Samples(v)]]

bandpass(v, checks) == mean_axis(v, checks)

----------------------------------------------------------------------------
(* quantile_mut(n64(0.5), &Midpoint) *)

\* the indexes (1-based) of floor((len-1)*0.5) and ceil((len-1)*0.5)
lower_index(len) == (len - 1) \div 2 + 1

higher_index(len) == len \div 2 + 1

\* arr[i] is in its sorted place: nothing larger before it, nothing smaller after
InPlace(arr, i) ==
    /\ \A j \in 1 .. i - 1 : arr[j] <= arr[i]
    /\ \A j \in i + 1 .. Len(arr) : arr[j] >= arr[i]

Rearranged(arr, f) == [i \in 1 .. Len(arr) |-> arr[f[i]]]

\* Faulty variant: a partition that overwrites the first slot with the pivot instead
\* of swapping it
get_many_from_sorted_mut_overwrite(arr) ==
    {a \in {[Rearranged(arr, f) EXCEPT ![1] = Rearranged(arr, f)[lower_index(Len(arr))]] :
                f \in Permutations(1 .. Len(arr))} :
        InPlace(a, lower_index(Len(a))) /\ InPlace(a, higher_index(Len(a)))}

\* The arrays the in-place selection of the two central indexes can leave:
\* the rearrangements of arr with both indexes in their sorted place.
get_many_from_sorted_mut(arr) ==
    {a \in {Rearranged(arr, f) : f \in Permutations(1 .. Len(arr))} :
        InPlace(a, lower_index(Len(a))) /\ InPlace(a, higher_index(Len(a)))}

\* Faulty variant: the Lower interpolation strategy
Lower_interpolate(lower, higher) == lower

\* Midpoint::interpolate in T: lower + (higher - lower) / T::from_u8(2)
Midpoint_interpolate(lower, higher) == lower + (higher - lower) \div 2

\* the quantile read off the selected array
quantile(arr) ==
    Midpoint_interpolate(arr[lower_index(Len(arr))], arr[higher_index(Len(arr))])

\* the closure of mapv: f32::from(v) < self.tolerance * t_sys_median
below_threshold(v, tol, median) ==
    F32Lt(F32From(v), F32Mul(tol, median))

mapv(arr, tol, median) ==
    [i \in 1 .. Len(arr) |-> below_threshold(arr[i], tol, median)]

----------------------------------------------------------------------------
(* The state machine *)

Init ==
    /\ \/ raw_spectra \in Buffers /\ channels \in 0 .. MaxChannels
       \/ raw_spectra = TestRaw /\ channels = TestChannels
    /\ tolerance \in Tolerances
    /\ overflow_checks \in BOOLEAN
    /\ pc = "start"
    /\ panic = "none"
    /\ spectra = NoView
    /\ bp = <<>>
    /\ t_sys = <<>>
    /\ t_sys_median = F32From(0)
    /\ t_sys_mask = <<>>
    /\ ret = <<>>

\* let spectra = to_spectra(&raw, channels);
ToSpectra ==
    /\ pc = "start"
    /\ LET r == to_spectra(raw_spectra, channels)
       IN  /\ panic' = r.panic
           /\ spectra' = r.view
           /\ pc' = IF r.panic = "none" THEN "view" ELSE "panicked"
    /\ UNCHANGED <<raw_spectra, channels, tolerance, overflow_checks,
                   bp, t_sys, t_sys_median, t_sys_mask, ret>>

\* let bp = bandpass(&spectra);
Bandpass ==
    /\ pc = "view"
    /\ LET r == bandpass(spectra, overflow_checks)
       IN  /\ panic' = r.panic
           /\ bp' = r.val
           /\ pc' = IF r.panic = "none" THEN "bandpass_done" ELSE "panicked"
    /\ UNCHANGED <<raw_spectra, channels, tolerance, overflow_checks,
                   spectra, t_sys, t_sys_median, t_sys_mask, ret>>

\* Tsys { tolerance }.mask(spectra): the three lets, then todo!().  The locals
\* keep the values they had when the call panicked.
Mask ==
    /\ pc = "view"
    /\ LET r == bandpass(spectra, overflow_checks)
       IN  IF r.panic # "none"
           THEN /\ panic' = r.panic
                /\ UNCHANGED <<t_sys, t_sys_median, t_sys_mask>>
           ELSE \E a \in get_many_from_sorted_mut(r.val) :
                    /\ t_sys' = a
                    /\ t_sys_median' = F32From(quantile(a))
                    /\ t_sys_mask' = mapv(a, tolerance, F32From(quantile(a)))
                    /\ panic' = "todo"
    /\ pc' = "panicked"
    /\ UNCHANGED <<raw_spectra, channels, tolerance, overflow_checks,
                   spectra, bp, ret>>

Next == ToSpectra \/ Bandpass \/ Mask

Spec == Init /\ [][Next]_vars

----------------------------------------------------------------------------
(* Vocabulary of the properties *)

\* the panics that come out of bandpass
BandpassPanics == {"unwrap_none", "expect_axis_length", "add_overflow"}

\* to_spectra returned a view
HasView == pc \in {"view", "bandpass_done"} \/ (pc = "panicked" /\ Channels(spectra) > 0)

\* a call of bandpass on the view has ended (directly or from Tsys::mask)
BandpassEnded == pc = "bandpass_done" \/ (pc = "panicked" /\ Channels(spectra) > 0)

\* Tsys::mask got as far as todo!()
MaskAtTodo == pc = "panicked" /\ panic = "todo"

ChannelIdx == 0 .. Channels(spectra) - 1

SampleIdx == 0 .. Samples(spectra) - 1

\* the sum of channel c over all samples, in the integers
RECURSIVE ExactSumTo(_, _)
ExactSumTo(c, n) == IF n = 0 THEN 0 ELSE ExactSumTo(c, n - 1) + At(spectra, n - 1, c)

ExactSum(c) == ExactSumTo(c, Samples(spectra))

SumsRepresentable == \A c \in ChannelIdx : ExactSum(c) <= TMax

Row(s) == [c \in 1 .. Channels(spectra) |-> At(spectra, s, c - 1)]

\* the profile of the view, as bandpass computes it
Profile == bandpass(spectra, overflow_checks).val

Sorted(seq) == SortSeq(seq, LAMBDA a, b : a < b)

Count(seq, x) == Cardinality({i \in DOMAIN seq : seq[i] = x})

SameMultiset(a, b) ==
    /\ Len(a) = Len(b)
    /\ \A i \in DOMAIN a : Count(a, a[i]) = Count(b, a[i])

Threshold == F32Mul(tolerance, t_sys_median)

\* the view with its rows (columns) rearranged: row s is the old row p[s]
PermuteRows(v, p) ==
    [v EXCEPT !.data = [i \in 1 .. Len(v.data) |->
        At(v, p[((i - 1) \div Channels(v)) + 1] - 1, (i - 1) % Channels(v))]]

PermuteCols(v, q) ==
    [v EXCEPT !.data = [i \in 1 .. Len(v.data) |->
        At(v, (i - 1) \div Channels(v), q[((i - 1) % Channels(v)) + 1] - 1)]]

----------------------------------------------------------------------------
(* C1 *)

----------------------------------------------------------------------------
(* C2 *)

\* C2 as stated: the decision at index c is the comparison of channel c's
\* bandpass value with tolerance * median.
C2_DecisionPerChannel ==
    MaskAtTodo =>
        \A c \in 1 .. Channels(spectra) :
            t_sys_mask[c] = F32Lt(F32From(Profile[c]), Threshold)

----------------------------------------------------------------------------
(* C3 *)

\* C3 as stated: on a view with S >= 1 and C >= 1 Tsys::mask returns normally
\* a grid of S rows, each of them the per-channel decisions.
C3_MaskReturnsGrid ==
    (MaskAtTodo /\ Samples(spectra) >= 1 /\ Channels(spectra) >= 1) =>
        /\ pc # "panicked"
        /\ ret = [s \in 1 .. Samples(spectra) |-> t_sys_mask]

----------------------------------------------------------------------------
(* C4 *)

\* C4: when channels > 0 divides the buffer's length, to_spectra returns a
\* view of shape (length / channels, channels) with view[s][c] = buffer[s*channels + c].
C4_RowMajorView ==
    (pc # "start" /\ channels > 0 /\ Len(raw_spectra) % channels = 0) =>
        /\ HasView
        /\ spectra.dim = <<Len(raw_spectra) \div channels, channels>>
        /\ \A s \in SampleIdx : \A c \in ChannelIdx :
              At(spectra, s, c) = raw_spectra[s * channels + c + 1]

C4_Witness ==
    /\ pc = "view"
    /\ Samples(spectra) = 2
    /\ Channels(spectra) = 2
    /\ At(spectra, 0, 1) # At(spectra, 1, 0)

----------------------------------------------------------------------------
(* C5 *)

----------------------------------------------------------------------------
(* C6 *)

\* C6 as stated: to_spectra fails with a ShapeError and returns no view when
\* channels is zero or does not divide the buffer's length.
C6_ShapeErrorAlways ==
    (pc # "start" /\ (channels = 0 \/ Len(raw_spectra) % channels # 0)) =>
        /\ pc = "panicked"
        /\ panic = "ShapeError"
        /\ spectra = NoView

\* C6 amended: to_spectra panics and returns no view when channels is zero or
\* does not divide the buffer's length: with the ShapeError of into_shape
\* when channels > 0 does not divide the length, with an integer division by
\* zero when channels is zero.  No call drops trailing elements.
C6_FailsNoView ==
    (pc # "start" /\ (channels = 0 \/ Len(raw_spectra) % channels # 0)) =>
        /\ pc = "panicked"
        /\ panic = IF channels = 0 THEN "divide_by_zero" ELSE "ShapeError"
        /\ spectra = NoView

C6_Witness ==
    /\ pc = "panicked"
    /\ panic = "ShapeError"
    /\ Len(raw_spectra) > channels

----------------------------------------------------------------------------
(* C7 *)

\* C7: bandpass on a view with zero samples ends in the checked failure of
\* mean_axis (None, unwrapped) and returns no profile; it does not divide by zero.
C7_EmptyViewFails ==
    (BandpassEnded /\ Samples(spectra) = 0) =>
        /\ pc = "panicked"
        /\ panic = "unwrap_none"
        /\ bp = <<>>
        /\ t_sys = <<>>

C7_Witness ==
    /\ pc = "panicked"
    /\ panic = "unwrap_none"
    /\ raw_spectra = <<>>
    /\ channels > 0

----------------------------------------------------------------------------
(* C8 *)

\* C8 as stated: on every non-empty view bandpass neither aborts nor wraps:
\* it returns the mean of the channel sums taken in the integers (here up to
\* the rounding of the division, which is not what the claim is about).
C8_NoOverflow ==
    (BandpassEnded /\ Samples(spectra) >= 1) =>
        /\ panic \notin BandpassPanics
        /\ pc = "bandpass_done" =>
              \A c \in ChannelIdx : bp[c + 1] = ExactSum(c) \div Samples(spectra)

----------------------------------------------------------------------------
(* C9 *)

\* C9: on a non-empty view, rearranging the rows leaves the outcome of
\* bandpass unchanged, and rearranging the columns rearranges the profile the
\* same way.
C9_RowColumnPermutation ==
    (BandpassEnded /\ Samples(spectra) >= 1 /\ panic # "todo") =>
        /\ \A p \in Permutations(1 .. Samples(spectra)) :
              bandpass(PermuteRows(spectra, p), overflow_checks) = [panic |-> panic, val |-> bp]
        /\ \A q \in Permutations(1 .. Channels(spectra)) :
              bandpass(PermuteCols(spectra, q), overflow_checks)
                  = [panic |-> panic, val |-> [c \in DOMAIN bp |-> bp[q[c]]]]

C9_Witness ==
    /\ pc = "bandpass_done"
    /\ Samples(spectra) >= 2
    /\ Channels(spectra) >= 2
    /\ Row(0) # Row(1)
    /\ bp[1] # bp[2]

----------------------------------------------------------------------------
(* C10 *)

\* C10: in Tsys::mask the comparison is mapped over the array the median was
\* selected in, that array holds the same values as the bandpass, and so as
\* many decisions are true as channels lie strictly below tolerance * median.
C10_SelectionKeepsMultiset ==
    MaskAtTodo =>
        /\ SameMultiset(t_sys, Profile)
        /\ t_sys_mask = [i \in DOMAIN t_sys |-> F32Lt(F32From(t_sys[i]), Threshold)]
        /\ Cardinality({i \in DOMAIN t_sys_mask : t_sys_mask[i]})
              = Cardinality({c \in DOMAIN Profile : F32Lt(F32From(Profile[c]), Threshold)})

C10_Witness ==
    /\ MaskAtTodo
    /\ t_sys # Profile
    /\ \E i \in DOMAIN t_sys_mask : t_sys_mask[i]
    /\ \E i \in DOMAIN t_sys_mask : ~t_sys_mask[i]

====
